---- MODULE Spec2Model ----
(***************************************************************************)
(* Photo series detector: the detection pipeline (photo_series_detector.py *)
(* and main.py), the SQLite store it writes, and the review session of     *)
(* visual_reviewer.py that edits the stored classifications.               *)
(*                                                                         *)
(* Strings that the code takes apart (filenames, identifiers) are records  *)
(* [parts, ext]: parts is name_without_ext.split('_'), each part a         *)
(* sequence of character codes (0..9 the digits, 10 = 'a', 11 = 'b', ...), *)
(* ext is the text after the last dot ("" when there is no dot). A path is *)
(* such a record with a dir field; Python indices stay 0-based.            *)
(* Confidence values are percentages (0.95 is 95).                         *)
(***************************************************************************)
EXTENDS Integers, Sequences, FiniteSets, TLC

VARIABLES
    db,                  \* the SQLite file: tables series, series_images
    series_data,         \* SeriesViewer.series_data
    current_series_idx,  \* SeriesViewer.current_series_idx
    current_image_idx,   \* SeriesViewer.current_image_idx
    modified_series,     \* SeriesViewer.modified_series
    running,             \* FALSE once root.quit() was called
    notice,              \* title of the last dialog the last handler showed,
                         \* "none" when it showed none
    lastOp,              \* the last handler that ran, with its arguments
    pre_edit,            \* per series id, the working copy at the last load,
                         \* save or reset (history, read by no handler)
    edits,               \* number of toggle/move edits so far (bounded)
    sorted_series,       \* main.py: the candidates the batch loop has left
    totals               \* main.py: total_images, total_series, valid_series

vars == <<db, series_data, current_series_idx, current_image_idx,
          modified_series, running, notice, lastOp, pre_edit, edits,
          sorted_series, totals>>

\* Bound on the number of edit operations of one review session.
MaxEdits == 2

-----------------------------------------------------------------------------
(* Python helpers *)

\* dict.get(key, default)
Get(d, k, default) == IF k \in DOMAIN d THEN d[k] ELSE default

\* str.isdigit()
isdigit(p) == Len(p) > 0 /\ \A i \in 1..Len(p) : p[i] \in 0..9

\* int(str) of an all-digit string
RECURSIVE int(_)
int(p) == IF Len(p) = 0 THEN 0 ELSE 10 * int(SubSeq(p, 1, Len(p) - 1)) + p[Len(p)]

\* str(int) of a non-negative number
RECURSIVE str(_)
str(n) == IF n < 10 THEN <<n>> ELSE str(n \div 10) \o <<n % 10>>

\* os.path.basename
basename(path) == [parts |-> path.parts, ext |-> path.ext]

\* max(list, default=0)
RECURSIVE max(_)
max(s) == IF s = <<>> THEN 0
          ELSE LET m == max(Tail(s)) IN
               IF Tail(s) = <<>> \/ Head(s) >= m THEN Head(s) ELSE m

\* the set of a list's elements
Elems(s) == {s[i] : i \in 1..Len(s)}

\* list.sort(key=lambda x: x[1]) on (item, key) pairs: stable, ascending
RECURSIVE InsertByKey(_, _)
InsertByKey(sorted, x) ==
    IF sorted = <<>> THEN <<x>>
    ELSE IF x[2] < Head(sorted)[2] THEN <<x>> \o sorted
    ELSE <<Head(sorted)>> \o InsertByKey(Tail(sorted), x)

RECURSIVE sort_by_key(_)
sort_by_key(s) ==
    IF s = <<>> THEN <<>>
    ELSE InsertByKey(sort_by_key(SubSeq(s, 1, Len(s) - 1)), s[Len(s)])

\* json.dumps of a dict whose keys were inserted in the order `keys`:
\* the text is the list of its members
json_dumps(keys, d) == [i \in 1..Len(keys) |-> <<keys[i], d[keys[i]]>>]

\* json.loads of such a text: the dict of its members
json_loads(text) ==
    [k \in {text[i][1] : i \in 1..Len(text)} |->
        text[CHOOSE i \in 1..Len(text) :
                /\ text[i][1] = k
                /\ \A j \in (i + 1)..Len(text) : text[j][1] # k][2]]

\* the last all-digit '_'-separated part at or before position i, <<>> if none
RECURSIVE LastDigitPart(_, _)
LastDigitPart(parts, i) ==
    IF i = 0 THEN <<>>
    ELSE IF isdigit(parts[i]) THEN parts[i]
    ELSE LastDigitPart(parts, i - 1)

\* extract_number: the number a filename sorts by
extract_number(path) ==
    LET p == LastDigitPart(path.parts, Len(path.parts))
    IN  IF p = <<>> THEN 0 ELSE int(p)

-----------------------------------------------------------------------------
(* photo_series_detector.py: the classification call and its normalisation *)

\* the empty string, the default of img_info.get("path", "")
EmptyStr == [parts |-> << <<>> >>, ext |-> ""]

\* extract_image_id: "_<digits>" for a .jpg/.jpeg name with an all-digit
\* part, else "img_<fallback_index + 1>"
extract_image_id(filename, fallback_index) ==
    LET p == LastDigitPart(filename.parts, Len(filename.parts))
    IN  IF filename.ext \in {"jpg", "jpeg"} /\ p # <<>>
        THEN [parts |-> << <<>>, p >>, ext |-> ""]
        ELSE [parts |-> << <<18, 22, 16>>, str(fallback_index + 1) >>, ext |-> ""]

\* the loop of analyze_series_with_gemini without the test of base64_image:
\* every image gets an identifier and a payload
RECURSIVE MapImages_ignoring_readability(_, _, _, _)
MapImages_ignoring_readability(image_paths, readable, i, acc) ==
    IF i >= Len(image_paths) THEN acc
    ELSE LET path == image_paths[i + 1]
             short_id == extract_image_id(basename(path), i)
         IN  MapImages_ignoring_readability(image_paths, readable, i + 1,
                [image_data |-> Append(acc.image_data, path),
                 image_id_mapping |->
                    [k \in DOMAIN acc.image_id_mapping \cup {short_id} |->
                        IF k = short_id THEN path ELSE acc.image_id_mapping[k]]])

\* analyze_series_with_gemini, the loop over image_paths from position i
\* (0-based): image_data gets the payload of every readable image (the
\* payload of a path is modelled by the path), image_id_mapping[short_id] is
\* overwritten by the last image that got short_id
RECURSIVE MapImages(_, _, _, _)
MapImages(image_paths, readable, i, acc) ==
    IF i >= Len(image_paths) THEN acc
    ELSE LET path == image_paths[i + 1]
             short_id == extract_image_id(basename(path), i)
         IN  IF path \in readable
             THEN MapImages(image_paths, readable, i + 1,
                    [image_data |-> Append(acc.image_data, path),
                     image_id_mapping |->
                        [k \in DOMAIN acc.image_id_mapping \cup {short_id} |->
                            IF k = short_id THEN path ELSE acc.image_id_mapping[k]]])
             ELSE MapImages(image_paths, readable, i + 1, acc)

\* create_gemini_prompt, the loop over image_data from position i (0-based):
\* the identifier is looked up for image_paths[i], the payload is
\* image_data[i]; image_ids are the identifiers the text lists, in order,
\* content_parts the payloads that follow it
RECURSIVE create_gemini_prompt(_, _, _, _, _)
create_gemini_prompt(image_paths, image_data, image_id_mapping, i, acc) ==
    IF i >= Len(image_data) THEN acc
    ELSE LET corresponding_path == image_paths[i + 1]
             found == {short_id \in DOMAIN image_id_mapping :
                          image_id_mapping[short_id] = corresponding_path}
         IN  create_gemini_prompt(image_paths, image_data, image_id_mapping, i + 1,
                IF found # {}
                THEN [image_ids |-> Append(acc.image_ids, CHOOSE short_id \in found : TRUE),
                      content_parts |-> Append(acc.content_parts, image_data[i + 1])]
                ELSE acc)

\* analyze_series_with_gemini up to generate_content: the request it sends,
\* sent |-> FALSE when it returns before building one
gemini_request(image_paths, readable) ==
    LET m == MapImages(image_paths, readable, 0,
                       [image_data |-> <<>>, image_id_mapping |-> <<>>])
        prompt == create_gemini_prompt(image_paths, m.image_data, m.image_id_mapping,
                       0, [image_ids |-> <<>>, content_parts |-> <<>>])
    IN  IF Len(image_paths) < 2
        THEN [sent |-> FALSE, image_data |-> <<>>, image_id_mapping |-> <<>>]
        ELSE IF m.image_data = <<>>
        THEN [sent |-> FALSE, image_data |-> m.image_data,
              image_id_mapping |-> m.image_id_mapping]
        ELSE [sent |-> TRUE, image_data |-> m.image_data,
              image_id_mapping |-> m.image_id_mapping,
              image_ids |-> prompt.image_ids,
              content_parts |-> prompt.content_parts]

\* whether the word list `term` occurs in the word list `caption`
Contains(caption, term) ==
    \E i \in 0..(Len(caption) - Len(term)) :
        SubSeq(caption, i + 1, i + Len(term)) = term

sequence_terms ==
    { <<"sequence", "of">>, <<"series", "of">>, <<"photo", "session">>,
      <<"consecutive", "shots">>, <<"multiple", "frames">>, <<"progression", "of">> }

\* the caption rule of parse_gemini_response; a caption is its list of words
EnhanceCaption(caption) ==
    IF \E term \in sequence_terms : Contains(caption, term) THEN caption
    ELSE IF caption[1] \in {"woman", "man", "person", "model", "influencer"}
         THEN <<"sequence", "of", "photos", "showing">> \o caption
         ELSE <<"photo", "session", "capturing">> \o caption

\* parse_gemini_response. raw_response.json tells what the text between the
\* first '{' and the last '}' is: "none" (no such span), "invalid" (json.loads
\* raises JSONDecodeError) or "object" (it parses to raw_response.value).
\* raw_response.non_string, when present, holds the keys whose JSON value is
\* not a string (a number, a list); such a caption has no strip(), and
\* the AttributeError is not caught here: the result is [raises |-> ...]
parse_gemini_response(raw_response) ==
    IF raw_response.json = "object"
    THEN LET parsed == raw_response.value
             result == [is_series |-> Get(parsed, "is_series", FALSE),
                        images |-> Get(parsed, "images", <<>>),
                        excluded_images |-> Get(parsed, "excluded_images", <<>>),
                        series_caption |-> Get(parsed, "series_caption", <<>>),
                        reason |-> Get(parsed, "reason", "No reason provided"),
                        confidence |-> Get(parsed, "confidence", 0)]
         IN  IF result.is_series /\ result.series_caption # <<>>
             THEN IF "series_caption" \in Get(raw_response, "non_string", {})
                  THEN [raises |-> "AttributeError"]
                  ELSE [result EXCEPT !.series_caption = EnhanceCaption(@)]
             ELSE result
    ELSE [is_series |-> FALSE, images |-> <<>>, excluded_images |-> <<>>,
          series_caption |-> <<>>,
          reason |-> IF raw_response.json = "none"
                     THEN "Could not find JSON in Gemini response"
                     ELSE "JSON parsing error",
          confidence |-> 0]

\* analyze_series_with_gemini, lines 173-179: a short id found in the table
\* is replaced by the file's name, any other entry is left as it is
TranslateIds(images, image_id_mapping) ==
    [i \in 1..Len(images) |->
        LET img_info == images[i]
            short_id == Get(img_info, "path", EmptyStr)
        IN  IF short_id \in DOMAIN image_id_mapping
            THEN [k \in DOMAIN img_info \cup {"path", "full_path"} |->
                    IF k = "path" THEN basename(image_id_mapping[short_id])
                    ELSE IF k = "full_path" THEN image_id_mapping[short_id]
                    ELSE img_info[k]]
            ELSE img_info]

\* analyze_series_with_gemini: the parsed response it returns. response.kind
\* is "error" when generate_content raises, else "text" with response.text;
\* the except clause also catches what parse_gemini_response raises
analyze_series_with_gemini(image_paths, readable, response) ==
    LET m == MapImages(image_paths, readable, 0,
                       [image_data |-> <<>>, image_id_mapping |-> <<>>])
    IN  IF Len(image_paths) < 2
        THEN [is_series |-> FALSE, images |-> <<>>, excluded_images |-> <<>>,
              reason |-> "Less than 2 images"]
        ELSE IF m.image_data = <<>>
        THEN [is_series |-> FALSE, images |-> <<>>, excluded_images |-> <<>>,
              reason |-> "No valid images found"]
        ELSE IF \/ response.kind = "error"
                \/ "raises" \in DOMAIN parse_gemini_response(response.text)
        THEN [is_series |-> FALSE, images |-> <<>>, excluded_images |-> <<>>,
              reason |-> "Error analyzing with Gemini"]
        ELSE LET parsed == parse_gemini_response(response.text)
                 with_thinking ==
                    [k \in DOMAIN parsed \cup {"thinking_summary", "thinking_tokens"} |->
                        IF k = "thinking_summary" THEN ""
                        ELSE IF k = "thinking_tokens" THEN 0
                        ELSE parsed[k]]
             IN  IF with_thinking.is_series
                 THEN [with_thinking EXCEPT
                          !.images = TranslateIds(@, m.image_id_mapping)]
                 ELSE with_thinking

-----------------------------------------------------------------------------
(* The store: db.series and db.series_images are the tables' rows,          *)
(* db.series_seq and db.images_seq the AUTOINCREMENT counters,              *)
(* db.analysis_log the rows of analysis_log in insertion order.             *)

EmptyDb ==
    [series |-> {}, series_images |-> {}, series_seq |-> 0, images_seq |-> 0,
     analysis_log |-> <<>>]

\* the counters of analyze_images before its loop
NoTotals == [total_images |-> 0, total_series |-> 0, valid_series |-> 0]

\* the order in which the keys of a parsed response were inserted
ResponseKeys ==
    <<"is_series", "images", "excluded_images", "series_caption", "reason",
      "confidence", "thinking_summary", "thinking_tokens">>

\* save_series_to_db, lines 440-449: one series_images row per entry of
\* parsed_response["images"], from entry i on
RECURSIVE InsertImages(_, _, _, _)
InsertImages(rows, series_id, images, next_id) ==
    IF images = <<>> THEN rows
    ELSE InsertImages(
            rows \cup {[id |-> next_id,
                        series_id |-> series_id,
                        image_path |-> Get(Head(images), "path", EmptyStr),
                        order_in_series |-> Get(Head(images), "order", 0)]},
            series_id, Tail(images), next_id + 1)

\* save_series_to_db: the store after the one transaction it commits
save_series_to_db(d, base_name, image_paths, parsed_response) ==
    LET is_series == Get(parsed_response, "is_series", FALSE)
        series_id == d.series_seq + 1
        images == IF is_series /\ "images" \in DOMAIN parsed_response
                  THEN parsed_response.images ELSE <<>>
        keys == SelectSeq(ResponseKeys, LAMBDA k : k \in DOMAIN parsed_response)
    IN  [series |-> d.series \cup
            {[id |-> series_id,
              base_name |-> base_name,
              directory |-> image_paths[1].dir,
              is_series |-> is_series,
              gemini_parsed_response |-> json_dumps(keys, parsed_response),
              series_caption |-> Get(parsed_response, "series_caption", <<>>),
              image_count |-> Len(image_paths)]},
         series_images |->
            InsertImages(d.series_images, series_id, images, d.images_seq + 1),
         series_seq |-> series_id,
         images_seq |-> d.images_seq + Len(images),
         analysis_log |-> d.analysis_log]

-----------------------------------------------------------------------------
(* visual_reviewer.py: loading the working set *)

\* get_original_images: the files of `listing` (os.listdir order) in
\* `directory` with a reviewable extension whose name holds base_name, sorted
\* by extract_number. The base names of the model hold no "DN" and are
\* shorter than 19 characters, so patterns_to_try is [base_pattern].
get_original_images(listing, directory, base_name) ==
    LET images == SelectSeq(listing, LAMBDA file :
                        /\ file.dir = directory
                        /\ file.ext \in {"jpg", "jpeg", "png"}
                        /\ Contains(file.parts, base_name))
        sorted == sort_by_key([j \in 1..Len(images) |->
                                  <<images[j], extract_number(images[j])>>])
    IN  [i \in 1..Len(sorted) |-> sorted[i][1]]

\* the rows of a table in rowid order
RECURSIVE RowsById(_)
RowsById(rows) ==
    IF rows = {} THEN <<>>
    ELSE LET first == CHOOSE r \in rows : \A q \in rows : r.id <= q.id
         IN  <<first>> \o RowsById(rows \ {first})

\* load_series_data, lines 90-116: the series_info of one row
SeriesInfo(row, listing) ==
    LET parsed_response == json_loads(row.gemini_parsed_response)
        original_images == get_original_images(listing, row.directory, row.base_name)
    IN  [id |-> row.id,
         base_name |-> row.base_name,
         directory |-> row.directory,
         caption |-> row.series_caption,
         confidence |-> Get(parsed_response, "confidence", 0),
         reason |-> Get(parsed_response, "reason", ""),
         original_images |-> original_images,
         included_images |-> Get(parsed_response, "images", <<>>),
         excluded_images |-> Get(parsed_response, "excluded_images", <<>>),
         total_count |-> Len(original_images)]

\* load_series_data: the rows with is_series = 1, ORDER BY image_count DESC
load_series_data(d, listing) ==
    LET rows == RowsById({r \in d.series : r.is_series})
        ordered == sort_by_key([i \in 1..Len(rows) |-> <<rows[i], 0 - rows[i].image_count>>])
    IN  [i \in 1..Len(ordered) |-> SeriesInfo(ordered[i][1], listing)]

-----------------------------------------------------------------------------
(* visual_reviewer.py: the display order *)

\* ai_order_map[filename]: the order of the last entry with that path
ai_order(included_images, filename) ==
    LET i == CHOOSE i \in 1..Len(included_images) :
                /\ included_images[i].path = filename
                /\ \A j \in (i + 1)..Len(included_images) :
                        included_images[j].path # filename
    IN  Get(included_images[i], "order", 0)

\* a display list that keeps the files in filename order
DisplayImagesByName(current_series) ==
    LET included_filenames == {img.path : img \in Elems(current_series.included_images)}
        actual_images == current_series.original_images
    IN  [i \in 1..Len(actual_images) |->
            <<actual_images[i], basename(actual_images[i]) \in included_filenames>>]

\* get_current_images, lines 740-791: the (img_path, status) pairs of a series
DisplayImages(current_series) ==
    LET included_filenames == {img.path : img \in Elems(current_series.included_images)}
        actual_images == current_series.original_images
        included_images_with_order ==
            LET inc == SelectSeq(actual_images,
                              LAMBDA img_path : basename(img_path) \in included_filenames)
            IN  sort_by_key([i \in 1..Len(inc) |->
                    <<inc[i], ai_order(current_series.included_images, basename(inc[i]))>>])
        excluded_images ==
            LET exc == SelectSeq(actual_images,
                              LAMBDA img_path : basename(img_path) \notin included_filenames)
            IN  sort_by_key([i \in 1..Len(exc) |-> <<exc[i], extract_number(exc[i])>>])
    IN  [i \in 1..Len(included_images_with_order) |->
            <<included_images_with_order[i][1], TRUE>>]
        \o [i \in 1..Len(excluded_images) |-> <<excluded_images[i][1], FALSE>>]

-----------------------------------------------------------------------------
(* visual_reviewer.py: the edit operations on one series *)

\* a toggle that numbers a re-included image by the length of the list
toggled_by_count(current_series, filename, current_status) ==
    IF current_status
    THEN [current_series EXCEPT
            !.included_images = SelectSeq(@, LAMBDA img : img.path # filename),
            !.excluded_images = IF filename \in Elems(@) THEN @ ELSE Append(@, filename)]
    ELSE [current_series EXCEPT
            !.excluded_images = SelectSeq(@, LAMBDA img : img # filename),
            !.included_images =
                Append(@, [path |-> filename,
                           order |-> Len(current_series.included_images) + 1])]

\* a toggle that forgets to record the removed image as excluded
toggled_without_excluding(current_series, filename, current_status) ==
    IF current_status
    THEN [current_series EXCEPT
            !.included_images = SelectSeq(@, LAMBDA img : img.path # filename)]
    ELSE LET max_order ==
                max([i \in 1..Len(current_series.included_images) |->
                        Get(current_series.included_images[i], "order", 0)])
         IN  [current_series EXCEPT
                !.excluded_images = SelectSeq(@, LAMBDA img : img # filename),
                !.included_images =
                    Append(@, [path |-> filename, order |-> max_order + 1])]

\* toggle_image_inclusion, lines 270-291: the series after the toggle of the
\* image named filename whose display status is current_status
toggled(current_series, filename, current_status) ==
    IF current_status
    THEN [current_series EXCEPT
            !.included_images = SelectSeq(@, LAMBDA img : img.path # filename),
            !.excluded_images = IF filename \in Elems(@) THEN @ ELSE Append(@, filename)]
    ELSE LET max_order ==
                max([i \in 1..Len(current_series.included_images) |->
                        Get(current_series.included_images[i], "order", 0)])
         IN  [current_series EXCEPT
                !.excluded_images = SelectSeq(@, LAMBDA img : img # filename),
                !.included_images =
                    Append(@, [path |-> filename, order |-> max_order + 1])]

\* the last position of included_images whose path is `filename` and is not
\* in `avoid`, 0 when there is none
LastIndex(included_images, filename, avoid) ==
    LET hits == {i \in 1..Len(included_images) :
                    /\ included_images[i].path = filename
                    /\ included_images[i].path \notin avoid}
    IN  IF hits = {} THEN 0 ELSE CHOOSE i \in hits : \A j \in hits : j <= i

\* a swap written as two assignments, the second reading the new value
moved_sequential(included_images, from_filename, to_filename) ==
    LET from_img == LastIndex(included_images, from_filename, {})
        to_img == LastIndex(included_images, to_filename, {from_filename})
    IN  IF from_img # 0 /\ to_img # 0
        THEN [included_images EXCEPT
                ![from_img].order = included_images[to_img].order]
        ELSE included_images

\* move_image, lines 319-332: the included list after the swap of the two
\* entries' order values (unchanged when one of them is not found); the
\* elif of the loop makes to_img skip the entries named from_filename
moved(included_images, from_filename, to_filename) ==
    LET from_img == LastIndex(included_images, from_filename, {})
        to_img == LastIndex(included_images, to_filename, {from_filename})
    IN  IF from_img # 0 /\ to_img # 0
        THEN [included_images EXCEPT
                ![from_img].order = included_images[to_img].order,
                ![to_img].order = included_images[from_img].order]
        ELSE included_images

\* save_changes, lines 350-367: the UPDATE of one series' row
updated_row(row, series) ==
    [row EXCEPT
        !.gemini_parsed_response =
            json_dumps(<<"images", "excluded_images", "confidence", "reason">>,
                       [images |-> series.included_images,
                        excluded_images |-> series.excluded_images,
                        confidence |-> series.confidence,
                        reason |-> series.reason]),
        !.image_count = Len(series.included_images)]

\* save_changes, lines 346-370: the series table after the committed loop
\* over modified_series
saved_series(rows, data, modified) ==
    {IF \E idx \in modified : idx < Len(data) /\ data[idx + 1].id = row.id
     THEN updated_row(row, data[(CHOOSE idx \in modified :
                                    idx < Len(data) /\ data[idx + 1].id = row.id) + 1])
     ELSE row : row \in rows}

\* reset_changes, lines 410-416: the series reloaded from its row
reloaded(current_series, row) ==
    LET parsed_response == json_loads(row.gemini_parsed_response)
    IN  [current_series EXCEPT
            !.included_images = Get(parsed_response, "images", <<>>),
            !.excluded_images = Get(parsed_response, "excluded_images", <<>>),
            !.confidence = Get(parsed_response, "confidence", 0),
            !.reason = Get(parsed_response, "reason", "")]

\* delete_current_series, line 229: DELETE FROM series WHERE id = ?
\* (the schema declares no ON DELETE CASCADE and the connection does not
\* enable foreign keys, so series_images is not touched)
deleted(d, series_id) ==
    [d EXCEPT !.series = {row \in @ : row.id # series_id}]

\* list.pop(idx) with a 0-based idx
pop(s, idx) == SubSeq(s, 1, idx) \o SubSeq(s, idx + 2, Len(s))

-----------------------------------------------------------------------------
(* The files and the classifications of the modelled runs *)

Path(dir, parts, ext) == [dir |-> dir, parts |-> parts, ext |-> ext]

\* the file <stem>_<digits>.jpg of directory "pics"
Jpg(stem, digits) == Path("pics", <<stem, digits>>, "jpg")

\* the identifier "_<digits>"
Id(digits) == [parts |-> << <<>>, digits >>, ext |-> ""]

\* os.listdir("pics")
Listing ==
    << Jpg(<<10>>, <<0, 2>>), Jpg(<<10>>, <<0, 1>>), Jpg(<<10>>, <<0, 3>>),
       Jpg(<<11>>, <<0, 1>>), Jpg(<<11>>, <<0, 2>>),
       Jpg(<<13>>, <<0, 1>>), Jpg(<<13>>, <<0, 2>>) >>

\* the candidate with base name <stem>: its files by number
Candidate(stem, n) ==
    [base_name |-> <<stem>>,
     image_paths |-> [i \in 1..n |-> Jpg(stem, <<0, i>>)]]

\* a positive answer of the classification service
Positive(images, excluded_images, caption) ==
    [kind |-> "text",
     text |-> [json |-> "object",
               value |-> [is_series |-> TRUE,
                          images |-> images,
                          excluded_images |-> excluded_images,
                          series_caption |-> caption,
                          reason |-> "coherent",
                          confidence |-> 95]]]

Entry(digits, order) == [path |-> Id(digits), order |-> order]

\* the store after the candidate was analysed (every file readable) and saved
Analysed(d, candidate, response) ==
    save_series_to_db(d, candidate.base_name, candidate.image_paths,
        analyze_series_with_gemini(candidate.image_paths,
                                   Elems(candidate.image_paths), response))

\* the store a review session starts from: "a" (3 files, the answer of the
\* specification's example) and "b" (2 files) are series, "d" was rejected
ReviewedDb ==
    LET d1 == Analysed(EmptyDb, Candidate(<<10>>, 3),
                Positive(<<Entry(<<0, 2>>, 1), Entry(<<0, 1>>, 2)>>, <<Id(<<0, 3>>)>>,
                         <<"woman", "posing">>))
        d2 == Analysed(d1, Candidate(<<13>>, 2),
                [kind |-> "text", text |-> [json |-> "none"]])
    IN  Analysed(d2, Candidate(<<11>>, 2),
                Positive(<<Entry(<<0, 1>>, 1), Entry(<<0, 2>>, 2)>>, <<>>,
                         <<"beach", "walk">>))

\* the four reviewed fields of a series
WorkingCopy(series) ==
    [included_images |-> series.included_images,
     excluded_images |-> series.excluded_images,
     confidence |-> series.confidence,
     reason |-> series.reason]

Baseline(data) ==
    [id \in {data[i].id : i \in 1..Len(data)} |->
        WorkingCopy(data[CHOOSE i \in 1..Len(data) : data[i].id = id])]

\* SeriesViewer.__init__
Init ==
    /\ db = ReviewedDb
    /\ series_data = load_series_data(db, Listing)
    /\ current_series_idx = 0
    /\ current_image_idx = 0
    /\ modified_series = {}
    /\ running = TRUE
    /\ notice = "none"
    /\ lastOp = [op |-> "load"]
    /\ pre_edit = Baseline(series_data)
    /\ edits = 0
    /\ sorted_series = <<>>
    /\ totals = NoTotals

-----------------------------------------------------------------------------
(* visual_reviewer.py: the handlers of a review session *)

Cur == series_data[current_series_idx + 1]

\* get_current_images: empty when there is no series
get_current_images ==
    IF series_data = <<>> THEN <<>> ELSE DisplayImages(Cur)

\* toggle_image_inclusion(img_idx): its effect on the working set
toggle_image_inclusion(img_idx) ==
    LET images == get_current_images
    IN  IF 0 <= img_idx /\ img_idx < Len(images)
        THEN LET img_path == images[img_idx + 1][1]
                 current_status == images[img_idx + 1][2]
             IN  /\ modified_series' = modified_series \cup {current_series_idx}
                 /\ series_data' = [series_data EXCEPT ![current_series_idx + 1] =
                        toggled(@, basename(img_path), current_status)]
                 /\ lastOp' = [op |-> "toggle", valid |-> TRUE, status |-> current_status]
                 /\ edits' = edits + 1
        ELSE /\ UNCHANGED <<modified_series, series_data, edits>>
             /\ lastOp' = [op |-> "toggle", valid |-> FALSE, status |-> FALSE]

\* on_key_press, 'space' and 't': toggle the selected image
KeyToggle ==
    /\ running /\ series_data # <<>> /\ edits < MaxEdits
    /\ toggle_image_inclusion(current_image_idx)
    /\ notice' = "none"
    /\ UNCHANGED <<db, current_series_idx, current_image_idx, running,
                   pre_edit, sorted_series, totals>>

\* on_image_click without Ctrl: toggle the clicked image and select it
ImageClick(idx) ==
    /\ running /\ series_data # <<>> /\ edits < MaxEdits
    /\ toggle_image_inclusion(idx)
    /\ current_image_idx' = idx
    /\ notice' = "none"
    /\ UNCHANGED <<db, current_series_idx, running, pre_edit, sorted_series, totals>>

\* a move_image that checks the two positions but not the images' status
move_allowed_any_status(images, from_idx, to_idx) ==
    /\ 0 <= from_idx /\ from_idx < Len(images)
    /\ 0 <= to_idx /\ to_idx < Len(images)

\* move_image, lines 299-311: both positions are in range and both images
\* are included
move_allowed(images, from_idx, to_idx) ==
    /\ 0 <= from_idx /\ from_idx < Len(images)
    /\ 0 <= to_idx /\ to_idx < Len(images)
    /\ images[from_idx + 1][2]
    /\ images[to_idx + 1][2]

\* move_image(from_idx, to_idx)
move_image(from_idx, to_idx) ==
    /\ running /\ series_data # <<>> /\ edits < MaxEdits
    /\ LET images == get_current_images
       IN  IF move_allowed(images, from_idx, to_idx)
           THEN /\ modified_series' = modified_series \cup {current_series_idx}
                /\ series_data' = [series_data EXCEPT
                        ![current_series_idx + 1].included_images =
                            moved(@, basename(images[from_idx + 1][1]),
                                     basename(images[to_idx + 1][1]))]
                /\ lastOp' = [op |-> "move", allowed |-> TRUE]
                /\ edits' = edits + 1
           ELSE /\ UNCHANGED <<modified_series, series_data, edits>>
                /\ lastOp' = [op |-> "move", allowed |-> FALSE]
    /\ notice' = "none"
    /\ UNCHANGED <<db, current_series_idx, current_image_idx, running,
                   pre_edit, sorted_series, totals>>

\* save_changes: fail_at is the flagged position whose UPDATE raises, -1 when
\* nothing raises. The loop and the commit are one transaction: an exception
\* leaves the connection uncommitted and the except branch only reports it.
SaveEffect(fail_at) ==
    IF modified_series = {}
    THEN /\ notice' = "No Changes"
         /\ UNCHANGED <<db, modified_series, pre_edit>>
    ELSE IF fail_at # -1
    THEN /\ notice' = "Error"
         /\ UNCHANGED <<db, modified_series, pre_edit>>
    ELSE /\ db' = [db EXCEPT !.series = saved_series(@, series_data, modified_series)]
         /\ modified_series' = {}
         /\ notice' = "Saved"
         /\ pre_edit' = Baseline(series_data)

FailPoints == {-1} \cup {idx \in modified_series : idx < Len(series_data)}

save_changes(fail_at) ==
    /\ running
    /\ SaveEffect(fail_at)
    /\ lastOp' = [op |-> "save"]
    /\ UNCHANGED <<series_data, current_series_idx, current_image_idx, running,
                   edits, sorted_series, totals>>

\* reset_changes: result is the answer to askyesno, fails tells whether the
\* SELECT raises
reset_changes(result, fails) ==
    /\ running /\ series_data # <<>>
    /\ lastOp' = [op |-> "reset"]
    /\ IF current_series_idx \notin modified_series
       THEN /\ notice' = "No Changes"
            /\ UNCHANGED <<series_data, modified_series, pre_edit>>
       ELSE IF ~result
       THEN /\ notice' = "Reset Changes"
            /\ UNCHANGED <<series_data, modified_series, pre_edit>>
       ELSE IF fails
       THEN /\ notice' = "Error"
            /\ UNCHANGED <<series_data, modified_series, pre_edit>>
       ELSE IF \E row \in db.series : row.id = Cur.id
       THEN LET row == CHOOSE row \in db.series : row.id = Cur.id
            IN  /\ series_data' = [series_data EXCEPT ![current_series_idx + 1] =
                                        reloaded(@, row)]
                /\ modified_series' = modified_series \ {current_series_idx}
                /\ notice' = "Reset"
                /\ pre_edit' = [pre_edit EXCEPT ![Cur.id] =
                                    WorkingCopy(reloaded(Cur, row))]
       ELSE /\ notice' = "Reset Changes"
            /\ UNCHANGED <<series_data, modified_series, pre_edit>>
    /\ UNCHANGED <<db, current_series_idx, current_image_idx, running, edits,
                   sorted_series, totals>>

\* a cursor left where it was after the removal
unadjusted_index(idx, data) == idx

\* delete_current_series, lines 237-240: the cursor after the removal
adjusted_index(idx, data) ==
    IF idx >= Len(data) /\ data # <<>>
    THEN Len(data) - 1
    ELSE IF data = <<>> THEN 0 ELSE idx

\* delete_current_series: result is the answer to askyesno, fails tells
\* whether the DELETE or its commit raises
delete_current_series(result, fails) ==
    /\ running /\ series_data # <<>>
    /\ lastOp' = [op |-> "delete"]
    /\ IF ~result
       THEN /\ notice' = "Delete Series"
            /\ UNCHANGED <<db, series_data, modified_series, current_series_idx,
                           current_image_idx, running, pre_edit>>
       ELSE IF fails
       THEN /\ notice' = "Error"
            /\ UNCHANGED <<db, series_data, modified_series, current_series_idx,
                           current_image_idx, running, pre_edit>>
       ELSE LET data == pop(series_data, current_series_idx)
            IN  /\ db' = deleted(db, Cur.id)
                /\ series_data' = data
                /\ modified_series' = modified_series \ {current_series_idx}
                /\ current_series_idx' = adjusted_index(current_series_idx, data)
                /\ current_image_idx' = 0
                /\ notice' = IF data # <<>> THEN "Deleted" ELSE "No More Series"
                /\ running' = (data # <<>>)
                /\ pre_edit' = [id \in DOMAIN pre_edit \ {Cur.id} |-> pre_edit[id]]
    /\ UNCHANGED <<edits, sorted_series, totals>>

\* on_key_press, 'Left' and 'Right': the previous and the next series
KeyLeft ==
    /\ running /\ current_series_idx > 0
    /\ current_series_idx' = current_series_idx - 1
    /\ current_image_idx' = 0
    /\ lastOp' = [op |-> "key"]
    /\ notice' = "none"
    /\ UNCHANGED <<db, series_data, modified_series, running, pre_edit,
                   edits, sorted_series, totals>>

KeyRight ==
    /\ running /\ current_series_idx < Len(series_data) - 1
    /\ current_series_idx' = current_series_idx + 1
    /\ current_image_idx' = 0
    /\ lastOp' = [op |-> "key"]
    /\ notice' = "none"
    /\ UNCHANGED <<db, series_data, modified_series, running, pre_edit,
                   edits, sorted_series, totals>>

\* on_key_press, 'Up' and 'Down': the previous and the next image
KeyUp ==
    /\ running /\ series_data # <<>> /\ current_image_idx > 0
    /\ current_image_idx' = current_image_idx - 1
    /\ lastOp' = [op |-> "key"]
    /\ notice' = "none"
    /\ UNCHANGED <<db, series_data, current_series_idx, modified_series, running,
                   pre_edit, edits, sorted_series, totals>>

KeyDown ==
    /\ running /\ series_data # <<>>
    /\ current_image_idx < Len(get_current_images) - 1
    /\ current_image_idx' = current_image_idx + 1
    /\ lastOp' = [op |-> "key"]
    /\ notice' = "none"
    /\ UNCHANGED <<db, series_data, current_series_idx, modified_series, running,
                   pre_edit, edits, sorted_series, totals>>

\* show_image_info: reads the display list and shows a dialog
show_image_info ==
    /\ running /\ series_data # <<>>
    /\ get_current_images # <<>>
    /\ notice' = "Series Info"
    /\ current_image_idx < Len(get_current_images)
    /\ lastOp' = [op |-> "info"]
    /\ UNCHANGED <<db, series_data, current_series_idx, current_image_idx,
                   modified_series, running, pre_edit, edits, sorted_series, totals>>

\* on_key_press, 'Escape' and 'q': result is the answer to askyesnocancel
KeyEscape(result, fail_at) ==
    /\ running
    /\ lastOp' = [op |-> "quit",
                  asked |-> modified_series # {},
                  answer |-> IF modified_series # {} THEN result ELSE "none"]
    /\ IF modified_series = {}
       THEN /\ running' = FALSE
            /\ notice' = "none"
            /\ UNCHANGED <<db, modified_series, pre_edit>>
       ELSE IF result = "yes"
       THEN /\ SaveEffect(fail_at)
            /\ running' = FALSE
       ELSE IF result = "no"
       THEN /\ running' = FALSE
            /\ notice' = "Unsaved Changes"
            /\ UNCHANGED <<db, modified_series, pre_edit>>
       ELSE /\ notice' = "Unsaved Changes"
            /\ UNCHANGED <<db, modified_series, running, pre_edit>>
    /\ UNCHANGED <<series_data, current_series_idx, current_image_idx, edits,
                   sorted_series, totals>>

ImageIndices == 0..(Len(get_current_images) - 1)

Next ==
    \/ KeyToggle
    \/ \E idx \in ImageIndices : ImageClick(idx)
    \/ \E from_idx, to_idx \in 0..Len(get_current_images) : move_image(from_idx, to_idx)
    \/ \E fail_at \in FailPoints : save_changes(fail_at)
    \/ \E result, fails \in BOOLEAN : reset_changes(result, fails)
    \/ \E result, fails \in BOOLEAN : delete_current_series(result, fails)
    \/ KeyLeft
    \/ KeyRight
    \/ KeyUp
    \/ KeyDown
    \/ show_image_info
    \/ \E result \in {"yes", "no", "cancel"} : \E fail_at \in FailPoints :
            KeyEscape(result, fail_at)

Spec == Init /\ [][Next]_vars

-----------------------------------------------------------------------------
(* main.py: the batch loop of analyze_images over the candidates *)

\* load_config: the defaults of the size filter
min_images_for_series == 2
max_images_for_series == 14

\* sorted_series: the candidates of the run, largest first
Batch == << Candidate(<<10>>, 3), Candidate(<<11>>, 2) >>

\* the "images" lists the classification service may answer with: up to two
\* entries over the identifiers "_01", "_02" and "_07" (no file has 07)
ResponseImages ==
    LET ids == { <<0, 1>>, <<0, 2>>, <<0, 7>> }
    IN  {<<>>} \cup { <<Entry(x, 1)>> : x \in ids }
               \cup { <<Entry(x, 1), Entry(y, 2)>> : x, y \in ids }

\* what generate_content may do: raise, or answer with one of these texts
Responses ==
    { [kind |-> "error"],
      [kind |-> "text", text |-> [json |-> "none"]],
      [kind |-> "text", text |-> [json |-> "invalid"]],
      [kind |-> "text", text |-> [json |-> "object",
            value |-> [is_series |-> FALSE, reason |-> "unrelated"]]] }
    \cup { Positive(images, excluded_images, <<"woman", "posing">>) :
            images \in ResponseImages,
            excluded_images \in { <<>>, <<Id(<<0, 3>>)>> } }

\* analyze_images before the loop: a new store, the candidates to process
InitDetect ==
    /\ db = EmptyDb
    /\ sorted_series = Batch
    /\ lastOp = [op |-> "start"]
    /\ series_data = <<>>
    /\ current_series_idx = 0
    /\ current_image_idx = 0
    /\ modified_series = {}
    /\ running = FALSE
    /\ notice = "none"
    /\ pre_edit = <<>>
    /\ edits = 0
    /\ totals = NoTotals

\* the counters after a candidate was analysed and saved
counted(t, image_paths, parsed_response) ==
    [total_images |-> t.total_images + Len(image_paths),
     total_series |-> t.total_series + 1,
     valid_series |-> t.valid_series
                        + IF Get(parsed_response, "is_series", FALSE) THEN 1 ELSE 0]

\* the loop with the try around the whole loop instead of around one
\* iteration: a save that raises ends the loop
ProcessSeries_ending_on_failure(readable, response, fails) ==
    /\ sorted_series # <<>>
    /\ LET base_name == Head(sorted_series).base_name
           image_paths == Head(sorted_series).image_paths
       IN  IF \/ Len(image_paths) < min_images_for_series
              \/ Len(image_paths) > max_images_for_series
           THEN /\ lastOp' = [op |-> "skip"]
                /\ UNCHANGED <<db, totals>>
           ELSE LET parsed_response ==
                        analyze_series_with_gemini(image_paths, readable, response)
                    m == MapImages(image_paths, readable, 0,
                            [image_data |-> <<>>, image_id_mapping |-> <<>>])
                IN  /\ lastOp' = [op |-> "analyze",
                                  image_paths |-> image_paths,
                                  image_id_mapping |-> m.image_id_mapping,
                                  response |-> response,
                                  parsed_response |-> parsed_response,
                                  saved |-> ~fails]
                    /\ db' = IF fails THEN db
                             ELSE save_series_to_db(db, base_name, image_paths,
                                                    parsed_response)
                    /\ totals' = IF fails THEN totals
                                 ELSE counted(totals, image_paths, parsed_response)
    /\ sorted_series' = IF fails THEN <<>> ELSE Tail(sorted_series)
    /\ UNCHANGED <<series_data, current_series_idx, current_image_idx,
                   modified_series, running, notice, pre_edit, edits>>

\* one iteration of the loop of analyze_images: readable is the set of files
\* image_to_base64 can read, response what the service does, fails whether
\* save_series_to_db raises before its commit (the except clause of the
\* iteration catches it and the loop continues)
ProcessSeries(readable, response, fails) ==
    /\ sorted_series # <<>>
    /\ LET base_name == Head(sorted_series).base_name
           image_paths == Head(sorted_series).image_paths
       IN  IF \/ Len(image_paths) < min_images_for_series
              \/ Len(image_paths) > max_images_for_series
           THEN /\ lastOp' = [op |-> "skip"]
                /\ UNCHANGED <<db, totals>>
           ELSE LET parsed_response ==
                        analyze_series_with_gemini(image_paths, readable, response)
                    m == MapImages(image_paths, readable, 0,
                            [image_data |-> <<>>, image_id_mapping |-> <<>>])
                IN  /\ lastOp' = [op |-> "analyze",
                                  image_paths |-> image_paths,
                                  image_id_mapping |-> m.image_id_mapping,
                                  response |-> response,
                                  parsed_response |-> parsed_response,
                                  saved |-> ~fails]
                    /\ db' = IF fails THEN db
                             ELSE save_series_to_db(db, base_name, image_paths,
                                                    parsed_response)
                    /\ totals' = IF fails THEN totals
                                 ELSE counted(totals, image_paths, parsed_response)
    /\ sorted_series' = Tail(sorted_series)
    /\ UNCHANGED <<series_data, current_series_idx, current_image_idx,
                   modified_series, running, notice, pre_edit, edits>>

\* analyze_images after the loop: log_analysis inserts the totals, then the
\* summary is printed; fails is whether log_analysis raises before its commit
LogAnalysis(fails) ==
    /\ sorted_series = <<>>
    /\ lastOp.op \in {"analyze", "skip"}
    /\ lastOp' = [op |-> "log_analysis", summary |-> ~fails]
    /\ db' = IF fails THEN db
             ELSE [db EXCEPT !.analysis_log =
                      Append(@, [directory |-> "pics",
                                 total_images |-> totals.total_images,
                                 total_series |-> totals.total_series])]
    /\ UNCHANGED <<sorted_series, totals, series_data, current_series_idx,
                   current_image_idx, modified_series, running, notice,
                   pre_edit, edits>>

\* the files of the candidate the loop is at
HeadFiles ==
    IF sorted_series = <<>> THEN {} ELSE Elems(Head(sorted_series).image_paths)

NextDetect ==
    \/ \E response \in Responses : \E fails \in BOOLEAN :
          \E readable \in SUBSET HeadFiles :
              ProcessSeries(readable, response, fails)
    \/ \E fails \in BOOLEAN : LogAnalysis(fails)

SpecDetect == InitDetect /\ [][NextDetect]_vars

\* a candidate over the size limit: <stem>_01.jpg .. <stem>_15.jpg
LargeCandidate(stem) ==
    [base_name |-> <<stem>>,
     image_paths |-> [i \in 1..(max_images_for_series + 1) |->
                        Jpg(stem, <<i \div 10, i % 10>>)]]

\* a run over three candidates, the first of them too large
LongBatch == << LargeCandidate(<<13>>), Candidate(<<10>>, 3), Candidate(<<11>>, 2) >>

\* generate_content raises, or answers with no record, a negative or a
\* positive one
BatchResponses ==
    { [kind |-> "error"],
      [kind |-> "text", text |-> [json |-> "none"]],
      [kind |-> "text", text |-> [json |-> "object",
            value |-> [is_series |-> FALSE, reason |-> "unrelated"]]],
      Positive(<<Entry(<<0, 2>>, 1), Entry(<<0, 1>>, 2)>>, <<>>,
               <<"woman", "posing">>) }

InitBatch ==
    /\ db = EmptyDb
    /\ sorted_series = LongBatch
    /\ lastOp = [op |-> "start"]
    /\ series_data = <<>>
    /\ current_series_idx = 0
    /\ current_image_idx = 0
    /\ modified_series = {}
    /\ running = FALSE
    /\ notice = "none"
    /\ pre_edit = <<>>
    /\ edits = 0
    /\ totals = NoTotals

\* the files of the candidate are all readable or all unreadable
NextBatch ==
    \/ \E response \in BatchResponses : \E fails \in BOOLEAN :
          \E readable \in {HeadFiles, {}} :
              ProcessSeries(readable, response, fails)
    \/ \E fails \in BOOLEAN : LogAnalysis(fails)

\* the loop and the statements after it run to their end: each iteration
\* returns (the calls it makes return or raise) and the next one follows
SpecBatch == InitBatch /\ [][NextBatch]_vars /\ WF_vars(NextBatch)

-----------------------------------------------------------------------------
(* photo_series_detector.py: find_image_series, and the part of             *)
(* analyze_images that turns its result into sorted_series.                 *)
(* A file name has one '.', and no name has the date-time prefix and the    *)
(* "DN" marker of patterns 1 and 2, so only pattern 3 can match.            *)

\* Bound on the number of files os.walk lists.
MaxFiles == 3

image_extensions == {"png", "jpg", "jpeg", "bmp", "tiff", "webp"}

\* the files a directory may hold: a_01.jpg, a_02.jpg, a_01.png, b_01.jpg,
\* b.jpg and a_03.txt
Pool ==
    { Jpg(<<10>>, <<0, 1>>), Jpg(<<10>>, <<0, 2>>),
      Path("pics", << <<10>>, <<0, 1>> >>, "png"),
      Jpg(<<11>>, <<0, 1>>),
      Path("pics", << <<11>> >>, "jpg"),
      Path("pics", << <<10>>, <<0, 3>> >>, "txt") }

\* the listings os.walk may produce: up to MaxFiles files of Pool, any order
Walks ==
    { s \in UNION { [1..n -> Pool] : n \in 0..MaxFiles } :
        \A i, j \in 1..Len(s) : i # j => s[i] # s[j] }

\* pattern 3, r'(.+)_(\d+)\.(.+)': group 1 when the name ends in '_' and
\* digits after a non-empty prefix, else name_without_ext
base_name_of(filename) ==
    LET parts == filename.parts
        n == Len(parts)
    IN  IF n >= 2 /\ isdigit(parts[n]) /\ ~(n = 2 /\ parts[1] = <<>>)
        THEN SubSeq(parts, 1, n - 1)
        ELSE parts

\* series_dict[base_name].append(path) for the paths from position i on;
\* a dict is the list of its items in insertion order
RECURSIVE GroupByBase(_, _, _)
GroupByBase(image_paths, i, series_dict) ==
    IF i > Len(image_paths) THEN series_dict
    ELSE LET path == image_paths[i]
             base_name == base_name_of(basename(path))
         IN  GroupByBase(image_paths, i + 1,
                IF \E k \in 1..Len(series_dict) : series_dict[k].base_name = base_name
                THEN [k \in 1..Len(series_dict) |->
                        IF series_dict[k].base_name = base_name
                        THEN [series_dict[k] EXCEPT !.image_paths = Append(@, path)]
                        ELSE series_dict[k]]
                ELSE Append(series_dict,
                            [base_name |-> base_name, image_paths |-> <<path>>]))

\* the cluster left in the order the paths were appended
sorted_in_listing_order(image_paths) == image_paths

\* sorted(image_paths, key=extract_number)
sorted_by_number(image_paths) ==
    LET keyed == sort_by_key([i \in 1..Len(image_paths) |->
                    <<image_paths[i], extract_number(image_paths[i])>>])
    IN  [i \in 1..Len(keyed) |-> keyed[i][1]]

\* find_image_series with the singleton filter replaced by len(v) > 0
find_image_series_keeping_singletons(walk) ==
    LET image_paths == SelectSeq(walk, LAMBDA p : p.ext \in image_extensions)
        series_dict == GroupByBase(image_paths, 1, <<>>)
        series == SelectSeq(series_dict, LAMBDA s : Len(s.image_paths) > 0)
    IN  [k \in 1..Len(series) |->
            [series[k] EXCEPT !.image_paths = sorted_by_number(@)]]

\* find_image_series: walk is what os.walk lists
find_image_series(walk) ==
    LET image_paths == SelectSeq(walk, LAMBDA p : p.ext \in image_extensions)
        series_dict == GroupByBase(image_paths, 1, <<>>)
        series == SelectSeq(series_dict, LAMBDA s : Len(s.image_paths) > 1)
    IN  [k \in 1..Len(series) |->
            [series[k] EXCEPT !.image_paths = sorted_by_number(@)]]

\* check_database_status_and_filter: the candidates with no series row yet;
\* fails is whether reading the store raises (the except clause then
\* "proceeds with all series")
check_database_status_and_filter(d, series_dict, fails) ==
    IF fails
    THEN series_dict
    ELSE SelectSeq(series_dict,
            LAMBDA s : \A r \in d.series : r.base_name # s.base_name)

\* sorted(series_dict.items(), key=lambda x: len(x[1]), reverse=True)
sorted_by_size(series_dict) ==
    LET keyed == sort_by_key([i \in 1..Len(series_dict) |->
                    <<series_dict[i], 0 - Len(series_dict[i].image_paths)>>])
    IN  [i \in 1..Len(keyed) |-> keyed[i][1]]

\* analyze_images before anything ran: a new store, the directory as listed
InitCluster ==
    /\ db = EmptyDb
    /\ sorted_series = <<>>
    /\ \E walk \in Walks : lastOp = [op |-> "walk", image_paths |-> walk]
    /\ series_data = <<>>
    /\ current_series_idx = 0
    /\ current_image_idx = 0
    /\ modified_series = {}
    /\ running = FALSE
    /\ notice = "none"
    /\ pre_edit = <<>>
    /\ edits = 0
    /\ totals = NoTotals

\* analyze_images up to the loop: cluster, drop the processed, sort by size
FindSeries(fails) ==
    /\ lastOp.op = "walk"
    /\ LET series_dict == find_image_series(lastOp.image_paths)
       IN  /\ lastOp' = [op |-> "find_image_series",
                         image_paths |-> lastOp.image_paths,
                         series_dict |-> series_dict]
           /\ sorted_series' =
                sorted_by_size(
                    check_database_status_and_filter(db, series_dict, fails))
    /\ UNCHANGED <<db, totals, series_data, current_series_idx,
                   current_image_idx, modified_series, running, notice,
                   pre_edit, edits>>

NextCluster == \E fails \in BOOLEAN : FindSeries(fails)

SpecCluster == InitCluster /\ [][NextCluster]_vars

-----------------------------------------------------------------------------
(* main.py: analyze_images run again and again over the same directory *)

\* Bound on the series rows of a store a further run starts with.
MaxRows == 3

\* Bound on the logged runs before a further run starts.
MaxRuns == 2

\* the directory of the runs: a_01.jpg, a_02.jpg, b_01.jpg, b_02.jpg
Directory ==
    << Jpg(<<10>>, <<0, 1>>), Jpg(<<10>>, <<0, 2>>),
       Jpg(<<11>>, <<0, 1>>), Jpg(<<11>>, <<0, 2>>) >>

\* before the first run: no store yet
InitRuns ==
    /\ db = EmptyDb
    /\ sorted_series = <<>>
    /\ lastOp = [op |-> "start"]
    /\ series_data = <<>>
    /\ current_series_idx = 0
    /\ current_image_idx = 0
    /\ modified_series = {}
    /\ running = FALSE
    /\ notice = "none"
    /\ pre_edit = <<>>
    /\ edits = 0
    /\ totals = NoTotals

\* analyze_images up to the loop, once the previous run has returned (after
\* its log_analysis, or early when nothing was left to process)
StartRun(fails) ==
    /\ sorted_series = <<>>
    /\ lastOp.op \in {"start", "filter", "log_analysis"}
    /\ Cardinality(db.series) < MaxRows
    /\ Len(db.analysis_log) < MaxRuns
    /\ LET series_dict == find_image_series(Directory)
           new_series_dict == check_database_status_and_filter(db, series_dict, fails)
       IN  /\ sorted_series' = sorted_by_size(new_series_dict)
           /\ lastOp' = [op |-> "filter",
                         read_fails |-> fails,
                         skipped_count |-> Len(series_dict) - Len(new_series_dict)]
    /\ totals' = NoTotals
    /\ UNCHANGED <<db, series_data, current_series_idx, current_image_idx,
                   modified_series, running, notice, pre_edit, edits>>

\* the loop of a run with every file readable, and log_analysis after it
NextRuns ==
    \/ \E fails \in BOOLEAN : StartRun(fails)
    \/ \E response \in BatchResponses : \E fails \in BOOLEAN :
          ProcessSeries(HeadFiles, response, fails)
    \/ \E fails \in BOOLEAN : LogAnalysis(fails)

SpecRuns == InitRuns /\ [][NextRuns]_vars

-----------------------------------------------------------------------------
(* photo_series_detector.py: one call of analyze_series_with_gemini on a    *)
(* candidate, for every set of readable files and every answer.             *)

\* the candidates a call may get: a_01.jpg a_02.jpg a_03.jpg; a_01.jpg
\* a_01.jpeg a_02.jpg (one cluster, "a"); b_01.png b_02.png
Candidates ==
    { Candidate(<<10>>, 3),
      [base_name |-> << <<10>> >>,
       image_paths |-> << Jpg(<<10>>, <<0, 1>>),
                          Path("pics", << <<10>>, <<0, 1>> >>, "jpeg"),
                          Jpg(<<10>>, <<0, 2>>) >>],
      [base_name |-> << <<11>> >>,
       image_paths |-> << Path("pics", << <<11>>, <<0, 1>> >>, "png"),
                          Path("pics", << <<11>>, <<0, 2>> >>, "png") >>] }

\* the lists that hold every element of S once
Orderings(S) == { s \in [1..Cardinality(S) -> S] : Elems(s) = S }

\* the positive answers that split the identifiers ids into an included list,
\* ordered as listed, and an excluded list
PartitionAnswers(ids) ==
    UNION { { Positive([i \in 1..Len(inc) |-> [path |-> inc[i], order |-> i]],
                       exc, <<"woman", "posing">>) :
                inc \in Orderings(I), exc \in Orderings(ids \ I) } :
            I \in SUBSET ids }

\* answers whose record lacks fields, or has a number as its caption
PartialAnswers ==
    { [kind |-> "text", text |-> [json |-> "object", value |-> v]] :
        v \in { [is_series |-> TRUE,
                 images |-> <<Entry(<<0, 1>>, 1), Entry(<<0, 2>>, 2)>>],
                [confidence |-> 40],
                [is_series |-> TRUE, series_caption |-> <<"beach", "day">>,
                 images |-> <<Entry(<<0, 2>>, 1), Entry(<<0, 1>>, 2)>>] } }
    \cup { [kind |-> "text",
            text |-> [json |-> "object",
                      value |-> [is_series |-> TRUE,
                                 images |-> <<Entry(<<0, 1>>, 1), Entry(<<0, 2>>, 2)>>,
                                 series_caption |-> <<"5">>],
                      non_string |-> {"series_caption"}]] }

\* the caller has a candidate and has not called yet
InitAnalyze ==
    /\ db = EmptyDb
    /\ \E candidate \in Candidates : sorted_series = <<candidate>>
    /\ lastOp = [op |-> "start"]
    /\ series_data = <<>>
    /\ current_series_idx = 0
    /\ current_image_idx = 0
    /\ modified_series = {}
    /\ running = FALSE
    /\ notice = "none"
    /\ pre_edit = <<>>
    /\ edits = 0
    /\ totals = NoTotals

\* analyze_series_with_gemini(image_paths): readable is the set of files
\* image_to_base64 can read, response what the service does when called;
\* normalized is what parse_gemini_response made of the answer's text
AnalyzeSeries(readable, response) ==
    /\ lastOp.op = "start"
    /\ sorted_series # <<>>
    /\ LET image_paths == Head(sorted_series).image_paths
           request == gemini_request(image_paths, readable)
           called == request.sent /\ response.kind = "text"
       IN  lastOp' = [op |-> "analyze_series",
                      image_paths |-> image_paths,
                      readable |-> readable,
                      request |-> request,
                      response |-> IF request.sent THEN response
                                   ELSE [kind |-> "unsent"],
                      normalized |-> IF called
                                     THEN parse_gemini_response(response.text)
                                     ELSE [raises |-> "not called"],
                      parsed_response |->
                          analyze_series_with_gemini(image_paths, readable, response)]
    /\ UNCHANGED <<db, sorted_series, totals, series_data, current_series_idx,
                   current_image_idx, modified_series, running, notice,
                   pre_edit, edits>>

NextAnalyze ==
    \E readable \in SUBSET HeadFiles :
        \E response \in Responses \cup PartialAnswers \cup
                PartitionAnswers(DOMAIN gemini_request(
                    Head(sorted_series).image_paths, readable).image_id_mapping) :
            AnalyzeSeries(readable, response)

SpecAnalyze == InitAnalyze /\ [][NextAnalyze]_vars

-----------------------------------------------------------------------------
(* db_maintenance.py: clean_missing_images. present is the set of image_path *)
(* values for which os.path.exists is true. The connection commits once, at  *)
(* the end: a run that is interrupted before leaves the store as it was.     *)

\* Bound on the number of sweeps of one history.
MaxSweeps == 2

\* SELECT id, image_path FROM series_images, in rowid order
RECURSIVE image_rows(_)
image_rows(rows) ==
    IF rows = {} THEN <<>>
    ELSE LET r == CHOOSE x \in rows : \A y \in rows : x.id <= y.id
         IN  <<r>> \o image_rows(rows \ {r})

\* the rows of the listing that name a missing file, in the order of the loop
missing_rows(d, present) ==
    SelectSeq(image_rows(d.series_images), LAMBDA r : r.image_path \notin present)

\* DELETE FROM series WHERE id NOT IN (SELECT DISTINCT series_id FROM
\* series_images WHERE series_id IS NOT NULL)
without_empty_series(d) ==
    [d EXCEPT !.series =
        {s \in @ : \E r \in d.series_images : r.series_id = s.id}]

\* the uncommitted state after the first k statements of a run: one DELETE
\* per missing row, then the DELETE of the series without rows
after_statements(d, present, k) ==
    LET missing == missing_rows(d, present)
        gone == {missing[i].id : i \in 1..(IF k < Len(missing) THEN k ELSE Len(missing))}
        d1 == [d EXCEPT !.series_images = {r \in @ : r.id \notin gone}]
    IN  IF k > Len(missing) /\ Len(missing) > 0 THEN without_empty_series(d1) ELSE d1

\* a sweep whose connection commits every statement at once
clean_missing_images_autocommit(d, present, interrupted, k) ==
    IF interrupted THEN after_statements(d, present, k)
    ELSE after_statements(d, present, Len(missing_rows(d, present)) + 1)

\* clean_missing_images: the store after a run; an interrupted run stops
\* after k statements, before conn.commit()
clean_missing_images(d, present, interrupted, k) ==
    IF interrupted THEN d
    ELSE after_statements(d, present, Len(missing_rows(d, present)) + 1)

\* the stores a sweep may find: the reviewed one, and it after the review
\* deleted the series "b"
SweptStores == { ReviewedDb, deleted(ReviewedDb, 3) }

InitSweep ==
    /\ db \in SweptStores
    /\ lastOp = [op |-> "start", run |-> 0]
    /\ sorted_series = <<>>
    /\ series_data = <<>>
    /\ current_series_idx = 0
    /\ current_image_idx = 0
    /\ modified_series = {}
    /\ running = FALSE
    /\ notice = "none"
    /\ pre_edit = <<>>
    /\ edits = 0
    /\ totals = NoTotals

\* one run of db_maintenance.py clean; restarted tells whether the run
\* before it was interrupted
Sweep(present, interrupted, k) ==
    /\ lastOp.run < MaxSweeps
    /\ db' = clean_missing_images(db, present, interrupted, k)
    /\ lastOp' = [op |-> "clean_missing_images",
                  run |-> lastOp.run + 1,
                  before |-> db,
                  present |-> present,
                  interrupted |-> interrupted,
                  restarted |-> Get(lastOp, "interrupted", FALSE)]
    /\ UNCHANGED <<sorted_series, totals, series_data, current_series_idx,
                   current_image_idx, modified_series, running, notice,
                   pre_edit, edits>>

\* the image_path values of the store
StoredPaths == {r.image_path : r \in db.series_images}

NextSweep ==
    \E present \in SUBSET StoredPaths : \E interrupted \in BOOLEAN :
        \E k \in 0..(Cardinality(db.series_images) + 1) :
            Sweep(present, interrupted, k)

SpecSweep == InitSweep /\ [][NextSweep]_vars

-----------------------------------------------------------------------------
(* Properties of the review session (Spec) *)

\* the order values of an included list
Orders(included) == {included[j].order : j \in 1..Len(included)}

NoDuplicateFilenames(included) ==
    \A j, k \in 1..Len(included) : j # k => included[j].path # included[k].path

\* the four reviewed fields as the row of series `id` stores them
StoredCopy(d, id) ==
    LET row == CHOOSE row \in d.series : row.id = id
        stored == json_loads(row.gemini_parsed_response)
    IN  [included_images |-> Get(stored, "images", <<>>),
         excluded_images |-> Get(stored, "excluded_images", <<>>),
         confidence |-> Get(stored, "confidence", 0),
         reason |-> Get(stored, "reason", "")]

\* the row of `series` holds the serialization of its working copy
IsWritten(series, d) ==
    \E row \in d.series :
        /\ row.id = series.id
        /\ row.gemini_parsed_response =
                << <<"images", series.included_images>>,
                   <<"excluded_images", series.excluded_images>>,
                   <<"confidence", series.confidence>>,
                   <<"reason", series.reason>> >>
        /\ row.image_count = Len(series.included_images)

\* the working copy of `series` differs from what the store holds for it
Diverges(series, d) ==
    /\ \E row \in d.series : row.id = series.id
    /\ WorkingCopy(series) # StoredCopy(d, series.id)

\* C1, as the specification states it: in every state of a review session
\* each included list has no duplicate filenames and its order values are
\* exactly 1..N, N the number of included images.
C1_OrdersArePermutation ==
    \A i \in 1..Len(series_data) :
        LET included == series_data[i].included_images
        IN  /\ NoDuplicateFilenames(included)
            /\ Orders(included) = 1..Len(included)

\* C1, amended: after any sequence of Toggle and Reorder operations each
\* included list has no duplicate filenames and its order values are
\* pairwise distinct positive integers (a removal leaves a gap, a re-included
\* image gets max + 1, a swap exchanges two values in place).
C1_OrdersAreDistinct ==
    \A i \in 1..Len(series_data) :
        LET included == series_data[i].included_images
        IN  /\ NoDuplicateFilenames(included)
            /\ \A j, k \in 1..Len(included) :
                    j # k => included[j].order # included[k].order
            /\ \A j \in 1..Len(included) : included[j].order >= 1

\* C1 witness: an edit has left a list of at least two included images whose
\* order values are not 1..N
C1_Witness ==
    /\ lastOp.op \in {"toggle", "move"}
    /\ \E i \in 1..Len(series_data) :
            LET included == series_data[i].included_images
            IN  Len(included) >= 2 /\ Orders(included) # 1..Len(included)

\* a step that toggles the image at display position idx
ToggleStep(idx) ==
    \/ ImageClick(idx)
    \/ idx = current_image_idx /\ KeyToggle

\* C2: a Toggle on a valid display index removes an included image from
\* `included` and appends its filename to `excluded`, or removes an excluded
\* image from `excluded` and appends it to `included` with order
\* max(existing orders) + 1 (1 when `included` is empty); the other entries
\* of both lists and the other series are unchanged and the series is
\* flagged as modified afterwards.
C2_Toggle ==
    [][lastOp'.op = "toggle" => \A idx \in ImageIndices :
        ToggleStep(idx) =>
            LET filename == basename(get_current_images[idx + 1][1])
                included == Cur.included_images
                excluded == Cur.excluded_images
                after == series_data'[current_series_idx + 1]
                highest == IF included = <<>> THEN 0
                           ELSE CHOOSE o \in Orders(included) :
                                    \A q \in Orders(included) : q <= o
            IN  /\ IF \E j \in 1..Len(included) : included[j].path = filename
                   THEN /\ after.included_images =
                                SelectSeq(included, LAMBDA e : e.path # filename)
                        /\ after.excluded_images = Append(excluded, filename)
                   ELSE /\ after.excluded_images =
                                SelectSeq(excluded, LAMBDA e : e # filename)
                        /\ after.included_images =
                                Append(included, [path |-> filename,
                                                  order |-> highest + 1])
                /\ current_series_idx \in modified_series'
                /\ Len(series_data') = Len(series_data)
                /\ \A i \in 1..Len(series_data) :
                        i # current_series_idx + 1 => series_data'[i] = series_data[i]
                /\ \A f \in DOMAIN Cur \ {"included_images", "excluded_images"} :
                        after[f] = Cur[f]
      ]_vars

\* C2 witness: the last step re-included an image behind a gap, so that it
\* got an order above the number of included images
C2_Witness ==
    /\ lastOp = [op |-> "toggle", valid |-> TRUE, status |-> FALSE]
    /\ current_series_idx \in modified_series
    /\ LET included == Cur.included_images
       IN  /\ Len(included) >= 2
           /\ included[Len(included)].order > Len(included)

\* the image at 0-based position idx of the display list `images` exists
\* and is in the included list of the current series
RefersToIncluded(images, idx) ==
    /\ 0 <= idx /\ idx < Len(images)
    /\ \E j \in 1..Len(Cur.included_images) :
            Cur.included_images[j].path = basename(images[idx + 1][1])

\* C3: a Reorder in which one of the two images is excluded, or an index is
\* out of range, changes neither the included list, the excluded list, an
\* order value nor the modified flags.
C3_ReorderNoOp ==
    [][(/\ lastOp'.op = "move"
        /\ LET images == get_current_images
           IN  \E from_idx, to_idx \in 0..Len(images) :
                /\ ~(RefersToIncluded(images, from_idx) /\ RefersToIncluded(images, to_idx))
                /\ move_image(from_idx, to_idx))
        => UNCHANGED <<series_data, modified_series, db>>
      ]_vars

\* C3 witness: the last step was a refused Reorder on a series that shows
\* both an included and an excluded image
C3_Witness ==
    /\ lastOp = [op |-> "move", allowed |-> FALSE]
    /\ \E j, k \in 1..Len(get_current_images) :
            get_current_images[j][2] /\ ~get_current_images[k][2]

\* C4, as the specification states it: a Save that does not fail writes
\* every Dirty series (flagged, or with a working copy that differs from the
\* store), leaves no flag set and does not write the other series.
C4_SaveWritesDirty ==
    [][(lastOp'.op = "save" /\ save_changes(-1) /\ modified_series # {}) =>
        /\ \A i \in 1..Len(series_data) :
            IF (i - 1) \in modified_series \/ Diverges(series_data[i], db)
            THEN IsWritten(series_data[i], db')
            ELSE \A row \in db.series :
                    row.id = series_data[i].id => row \in db'.series
        /\ modified_series' = {}
      ]_vars

\* C5, as the specification states it: when the update of one flagged series
\* fails during Save, the flagged series the same Save handled before it are
\* committed, the failed series stays flagged and the failure is reported.
C5_SaveIndependent ==
    [][lastOp'.op = "save" => \A fail_at \in 0..(Len(series_data) - 1) :
        (save_changes(fail_at) /\ fail_at \in modified_series) =>
            /\ \A idx \in modified_series :
                    idx < fail_at => IsWritten(series_data[idx + 1], db')
            /\ fail_at \in modified_series'
            /\ notice' = "Error"
      ]_vars

\* C6, as the specification states it: a Reset of the current series,
\* flagged or not, leaves its working copy equal to the stored values and
\* its flag cleared; the other series and their flags are unchanged.
C6_ResetReloads ==
    [][(lastOp'.op = "reset" /\ reset_changes(TRUE, FALSE)) =>
        /\ WorkingCopy(series_data'[current_series_idx + 1]) = StoredCopy(db', Cur.id)
        /\ current_series_idx \notin modified_series'
        /\ \A i \in 1..Len(series_data) :
                i # current_series_idx + 1 => series_data'[i] = series_data[i]
        /\ modified_series' \ {current_series_idx}
                = modified_series \ {current_series_idx}
      ]_vars

\* C7, as the specification states it: a Reset right after a Save changes
\* neither the working set nor the store, and a Reset after edits restores
\* the four fields to their values at the last load or Save.
C7_SaveResetSymmetry ==
    [][(lastOp'.op = "reset" /\ reset_changes(TRUE, FALSE)) =>
        /\ (lastOp.op = "save" /\ notice = "Saved")
                => UNCHANGED <<series_data, db>>
        /\ WorkingCopy(series_data'[current_series_idx + 1]) = pre_edit[Cur.id]
      ]_vars

\* C8, as the specification states it: a confirmed Delete removes the series
\* row and every series_images row of that series from the store and the
\* series from the working set.
C8_DeleteCascades ==
    [][(lastOp'.op = "delete" /\ delete_current_series(TRUE, FALSE)) =>
        /\ \A row \in db'.series : row.id # Cur.id
        /\ \A row \in db'.series_images : row.series_id # Cur.id
        /\ \A i \in 1..Len(series_data') : series_data'[i].id # Cur.id
      ]_vars

\* the number of the last all-digit part of a filename, 0 without one
SuffixNumber(path) ==
    LET digit_parts == {i \in 1..Len(path.parts) : isdigit(path.parts[i])}
    IN  IF digit_parts = {} THEN 0
        ELSE int(path.parts[CHOOSE i \in digit_parts : \A j \in digit_parts : j <= i])

\* the display list of a series is its files, the included ones first by
\* ascending order value, then the others by ascending suffix number
DisplayIsOrdered(series) ==
    LET display == DisplayImages(series)
        included == series.included_images
        IsIncluded(path) ==
            \E j \in 1..Len(included) : included[j].path = basename(path)
        OrderOf(path) ==
            included[CHOOSE j \in 1..Len(included) :
                        included[j].path = basename(path)].order
    IN  /\ Len(display) = Len(series.original_images)
        /\ {display[j][1] : j \in 1..Len(display)} = Elems(series.original_images)
        /\ \A j \in 1..Len(included) :
                \E k \in 1..Len(display) :
                    basename(display[k][1]) = included[j].path /\ display[k][2]
        /\ \A j \in 1..Len(display) : display[j][2] = IsIncluded(display[j][1])
        /\ \A j, k \in 1..Len(display) :
                j < k =>
                    /\ display[k][2] => display[j][2]
                    /\ (display[j][2] /\ display[k][2])
                            => OrderOf(display[j][1]) <= OrderOf(display[k][1])
                    /\ (~display[j][2] /\ ~display[k][2])
                            => SuffixNumber(display[j][1]) <= SuffixNumber(display[k][1])

-----------------------------------------------------------------------------
(* Properties of the batch run (SpecDetect) *)

\* C10, as the specification states it: a saved candidate has one series
\* row and, when is_series is true, one series_images row per included
\* member, keyed by an original filename of the candidate, with the
\* classifier's order; the other files have no row, and a result with
\* is_series false has no rows.
C10_RowsPerIncludedMember ==
    (lastOp.op = "analyze" /\ lastOp.saved) =>
        LET series_id == db.series_seq
            rows == {r \in db.series_images : r.series_id = series_id}
            result == lastOp.parsed_response
            filenames == {basename(path) : path \in Elems(lastOp.image_paths)}
        IN  /\ Cardinality({r \in db.series : r.id = series_id}) = 1
            /\ IF result.is_series
               THEN /\ Cardinality(rows) = Len(result.images)
                    /\ \A r \in rows : r.image_path \in filenames
                    /\ \A j \in 1..Len(result.images) :
                            \E r \in rows :
                                /\ r.image_path = result.images[j].path
                                /\ r.order_in_series = result.images[j].order
                    /\ \A r \in rows :
                            \E j \in 1..Len(result.images) :
                                r.image_path = result.images[j].path
               ELSE rows = {}

\* a classification call or a save failed for the candidate just processed
Failed ==
    /\ lastOp.op = "analyze"
    /\ \/ ~lastOp.saved
       \/ lastOp.response.kind = "error"

\* C18: a failure of the classification call or of persisting its result for
\* one candidate does not stop the batch: the loop only ever moves on to the
\* next candidate, which is then classified (and saved unless that fails
\* too) or skipped for its size, and after a failure the run still reaches
\* log_analysis, with no candidate left unprocessed.
C18_BatchContinues ==
    /\ [][sorted_series' # sorted_series =>
              /\ sorted_series # <<>>
              /\ sorted_series' = Tail(sorted_series)
              /\ lastOp'.op \in {"analyze", "skip"}]_vars
    /\ Failed ~> (sorted_series = <<>> /\ lastOp.op = "log_analysis")

\* the run logged its totals after the first candidate was skipped for its
\* size, the save of the second failed and the third was classified and saved
C18_Witness ==
    /\ lastOp.op = "log_analysis"
    /\ \A row \in db.series : row.base_name # LongBatch[2].base_name
    /\ \E row \in db.series : row.base_name = LongBatch[3].base_name
    /\ totals.total_series = 1

-----------------------------------------------------------------------------
(* Properties of the clustering (SpecCluster) *)

\* the cluster of key base_name in a result, <<>> when it has none
ClusterOf(series_dict, base_name) ==
    IF \E k \in 1..Len(series_dict) : series_dict[k].base_name = base_name
    THEN series_dict[CHOOSE k \in 1..Len(series_dict) :
                        series_dict[k].base_name = base_name].image_paths
    ELSE <<>>

ClusterKeys(series_dict) == {series_dict[k].base_name : k \in 1..Len(series_dict)}

\* the listings with the same files as walk
Shuffles(walk) ==
    { s \in [1..Len(walk) -> Elems(walk)] : Elems(s) = Elems(walk) }

\* C19: clustering is independent of the input order: every shuffle of the
\* listing gives the same cluster keys and, per key, the same ordered member
\* list.
C19_OrderIndependent ==
    lastOp.op = "find_image_series" =>
        \A shuffle \in Shuffles(lastOp.image_paths) :
            LET other == find_image_series(shuffle)
            IN  /\ ClusterKeys(other) = ClusterKeys(lastOp.series_dict)
                /\ \A base_name \in ClusterKeys(other) :
                      ClusterOf(other, base_name) =
                      ClusterOf(lastOp.series_dict, base_name)

\* the files of the listing that map to the key base_name
FilesOfKey(walk, base_name) ==
    { p \in Elems(walk) : /\ p.ext \in image_extensions
                          /\ base_name_of(basename(p)) = base_name }

\* C20: singleton exclusion: every cluster of the output has at least two
\* members, and a key to which exactly one file maps is not in the output.
C20_NoSingletons ==
    lastOp.op = "find_image_series" =>
        /\ \A k \in 1..Len(lastOp.series_dict) :
              Len(lastOp.series_dict[k].image_paths) >= 2
        /\ \A p \in Elems(lastOp.image_paths) :
              LET base_name == base_name_of(basename(p))
              IN  Cardinality(FilesOfKey(lastOp.image_paths, base_name)) = 1
                  => base_name \notin ClusterKeys(lastOp.series_dict)

\* a listing with a cluster of two and a key with one file was clustered
C20_Witness ==
    /\ lastOp.op = "find_image_series"
    /\ Len(lastOp.series_dict) = 1
    /\ \E p \in Elems(lastOp.image_paths) :
          Cardinality(FilesOfKey(lastOp.image_paths,
                                 base_name_of(basename(p)))) = 1

\* the position of a file in a list, 0 when it is not in it
PositionIn(paths, path) ==
    IF path \in Elems(paths) THEN CHOOSE i \in 1..Len(paths) : paths[i] = path
    ELSE 0

\* C21: within every output cluster the members are in non-decreasing order
\* of their numeric key (the last all-digit '_'-separated part of the
\* filename, 0 without one), whatever the order of the listing.
C21_ClustersByNumber ==
    lastOp.op = "find_image_series" =>
        \A k \in 1..Len(lastOp.series_dict) :
            LET members == lastOp.series_dict[k].image_paths
            IN  /\ Elems(members) =
                      FilesOfKey(lastOp.image_paths, lastOp.series_dict[k].base_name)
                /\ \A i, j \in 1..Len(members) :
                      i < j => SuffixNumber(members[i]) <= SuffixNumber(members[j])

\* a listing with a_02.jpg before a_01.jpg was clustered
C21_Witness ==
    /\ lastOp.op = "find_image_series"
    /\ PositionIn(lastOp.image_paths, Jpg(<<10>>, <<0, 2>>)) > 0
    /\ PositionIn(lastOp.image_paths, Jpg(<<10>>, <<0, 1>>))
          > PositionIn(lastOp.image_paths, Jpg(<<10>>, <<0, 2>>))
    /\ \E k \in 1..Len(lastOp.series_dict) :
          PositionIn(lastOp.series_dict[k].image_paths, Jpg(<<10>>, <<0, 1>>)) = 1

-----------------------------------------------------------------------------
(* Properties of one classification call (SpecAnalyze) *)

\* the names of the candidate's files
Filenames(image_paths) == {basename(path) : path \in Elems(image_paths)}

\* the identifier extract_image_id assigns to the file at 1-based position k
AssignedId(image_paths, k) == extract_image_id(basename(image_paths[k]), k - 1)

\* C11: within one request the identifiers of the readable images are
\* pairwise distinct, so the identifier table has exactly one entry per
\* image that is sent.
C11_IdsAreUnique ==
    lastOp.op = "analyze_series" =>
        LET image_paths == lastOp.image_paths
            sent == {k \in 1..Len(image_paths) : image_paths[k] \in lastOp.readable}
        IN  /\ \A j, k \in sent :
                  j # k => AssignedId(image_paths, j) # AssignedId(image_paths, k)
            /\ Cardinality(DOMAIN lastOp.request.image_id_mapping)
                  = Len(lastOp.request.image_data)

\* C12: in every request that is built, the k-th identifier the instruction
\* text lists is the identifier assigned to the image whose data is the k-th
\* payload, and the table and the payload list have the same length, for
\* every subset of the images being unreadable.
C12_PositionalAgreement ==
    (lastOp.op = "analyze_series" /\ lastOp.request.sent) =>
        LET image_paths == lastOp.image_paths
            request == lastOp.request
        IN  /\ Len(request.image_ids) = Len(request.content_parts)
            /\ Cardinality(DOMAIN request.image_id_mapping)
                  = Len(request.content_parts)
            /\ \A k \in 1..Len(request.content_parts) :
                  \E j \in 1..Len(image_paths) :
                      /\ image_paths[j] = request.content_parts[k]
                      /\ request.image_ids[k] = AssignedId(image_paths, j)

\* C13: an image that cannot be read is skipped and gets no identifier; when
\* no image of the candidate can be read, no request is sent and the result
\* is not-a-series with the reason that no valid images were found.
C13_UnreadableSkipped ==
    lastOp.op = "analyze_series" =>
        LET request == lastOp.request
            unreadable == Elems(lastOp.image_paths) \ lastOp.readable
        IN  /\ \A path \in unreadable :
                  /\ path \notin Elems(request.image_data)
                  /\ \A short_id \in DOMAIN request.image_id_mapping :
                        request.image_id_mapping[short_id] # path
            /\ unreadable = Elems(lastOp.image_paths) =>
                  /\ ~request.sent
                  /\ lastOp.response.kind = "unsent"
                  /\ lastOp.parsed_response =
                        [is_series |-> FALSE, images |-> <<>>,
                         excluded_images |-> <<>>,
                         reason |-> "No valid images found"]

\* a call on a candidate none of whose files could be read
C13_Witness ==
    /\ lastOp.op = "analyze_series"
    /\ Len(lastOp.image_paths) >= 2
    /\ lastOp.readable = {}
    /\ ~lastOp.request.sent

\* C14: identifier round trip: when the answer splits the request's
\* identifiers into an included list (in any order) and an excluded list,
\* the translated result holds exactly the original filenames in both lists.
C14_RoundTrip ==
    (/\ lastOp.op = "analyze_series"
     /\ lastOp.request.sent
     /\ lastOp.response \in
            PartitionAnswers(DOMAIN lastOp.request.image_id_mapping)) =>
        LET table == lastOp.request.image_id_mapping
            answer == lastOp.response.text.value
            result == lastOp.parsed_response
        IN  /\ Len(result.images) = Len(answer.images)
            /\ \A k \in 1..Len(answer.images) :
                  result.images[k].path = basename(table[answer.images[k].path])
            /\ Len(result.excluded_images) = Len(answer.excluded_images)
            /\ \A k \in 1..Len(answer.excluded_images) :
                  result.excluded_images[k] =
                      basename(table[answer.excluded_images[k]])

\* the fields of a normalized result with their defaults
Defaults ==
    [is_series |-> FALSE, images |-> <<>>, excluded_images |-> <<>>,
     series_caption |-> <<>>, reason |-> "No reason provided", confidence |-> 0]

\* C16: the normalizer fails on no text: without a parsable '{'..'}' span
\* the result is is_series false, no included, no excluded, confidence 0 and
\* a diagnostic reason; for a parsable record every missing field has its
\* default and every present field its value (the caption of a series after
\* the terminology rule).
C16_NormalizerNeverFails ==
    (lastOp.op = "analyze_series" /\ lastOp.response.kind = "text") =>
        LET text == lastOp.response.text
            result == lastOp.normalized
        IN  /\ "raises" \notin DOMAIN result
            /\ DOMAIN result = DOMAIN Defaults
            /\ IF text.json = "object"
               THEN \A field \in DOMAIN Defaults :
                        IF field \notin DOMAIN text.value
                        THEN result[field] = Defaults[field]
                        ELSE IF field = "series_caption"
                        THEN result[field] \in
                                {text.value[field], EnhanceCaption(text.value[field])}
                        ELSE result[field] = text.value[field]
               ELSE /\ result.is_series = FALSE
                    /\ result.images = <<>>
                    /\ result.excluded_images = <<>>
                    /\ result.confidence = 0
                    /\ result.reason \in {"Could not find JSON in Gemini response",
                                          "JSON parsing error"}

-----------------------------------------------------------------------------
(* Further properties of the batch run (SpecDetect) *)

\* C15: an identifier that is not in the request's table is dropped: after
\* normalization every included and excluded entry is a filename of the
\* candidate, and no series_images row is created for an unknown identifier.
C15_UnknownIdsDropped ==
    lastOp.op = "analyze" =>
        LET result == lastOp.parsed_response
            names == Filenames(lastOp.image_paths)
        IN  /\ \A k \in 1..Len(result.images) : result.images[k].path \in names
            /\ \A k \in 1..Len(result.excluded_images) :
                  result.excluded_images[k] \in names
            /\ \A r \in db.series_images : \E s \in db.series :
                  /\ s.id = r.series_id
                  /\ \E n \in 1..s.image_count :
                        r.image_path = [parts |-> <<s.base_name[1], <<0, n>> >>,
                                        ext |-> "jpg"]

\* whether the order values are pairwise distinct positive integers, at
\* least two of them
TwoDistinctPositive(orders) ==
    /\ Len(orders) >= 2
    /\ \A j \in 1..Len(orders) : orders[j] > 0
    /\ \A j, k \in 1..Len(orders) : j # k => orders[j] # orders[k]

\* C17: every normalized result with is_series true, and every series
\* persisted from it, has at least two included entries with pairwise
\* distinct positive order values, whatever the service answered.
C17_SeriesHaveTwoOrdered ==
    /\ lastOp.op = "analyze" /\ lastOp.parsed_response.is_series =>
          TwoDistinctPositive([k \in 1..Len(lastOp.parsed_response.images) |->
                                  lastOp.parsed_response.images[k].order])
    /\ \A s \in db.series : s.is_series =>
          LET rows == {r \in db.series_images : r.series_id = s.id}
          IN  /\ Cardinality(rows) >= 2
              /\ \A r \in rows : r.order_in_series > 0
              /\ \A r, q \in rows :
                    r # q => r.order_in_series # q.order_in_series

-----------------------------------------------------------------------------
(* Properties of the maintenance sweep (SpecSweep) *)

\* the store after one run from d that is not interrupted
SweptOnce(d, present) ==
    LET images == {r \in d.series_images : r.image_path \in present}
    IN  IF images = d.series_images THEN d
        ELSE [d EXCEPT !.series_images = images,
                       !.series = {s \in @ : \E r \in images : r.series_id = s.id}]

\* C22: the sweep is idempotent and restartable: a second run with the same
\* files missing leaves the store of the first run as it is, and a run after
\* an interrupted one ends in the store one uninterrupted run ends in.
C22_SweepRestartable ==
    [][(/\ lastOp.op = "clean_missing_images"
        /\ lastOp'.op = "clean_missing_images"
        /\ lastOp'.present = lastOp.present
        /\ ~lastOp'.interrupted)
       => IF lastOp.interrupted
          THEN db' = SweptOnce(lastOp.before, lastOp.present)
          ELSE db' = db /\ db = SweptOnce(lastOp.before, lastOp.present)]_vars

\* a run with a file missing was interrupted and then run again to its end
C22_Witness ==
    /\ lastOp.op = "clean_missing_images"
    /\ lastOp.restarted
    /\ ~lastOp.interrupted
    /\ lastOp.present # {r.image_path : r \in lastOp.before.series_images}
    /\ db # lastOp.before

\* C30: a sweep removes a series only as cascading cleanup: a series row
\* that is gone after the run had a series_images row before it and has none
\* left; every other series row is still there.
C30_OnlyCascadingRemoval ==
    (lastOp.op = "clean_missing_images") =>
        \A s \in lastOp.before.series :
            s \notin db.series =>
                /\ \E r \in lastOp.before.series_images : r.series_id = s.id
                /\ ~\E r \in db.series_images : r.series_id = s.id

-----------------------------------------------------------------------------
(* Further properties of the review session (Spec) *)

\* the (filename, order) pairs of a list of included entries
Pairs(included) ==
    {<<Get(included[k], "path", EmptyStr), Get(included[k], "order", 0)>> :
        k \in 1..Len(included)}

\* C23: in every reachable store state each series row with is_series true
\* has series_images rows whose (filename, order) pairs are exactly the
\* included list recorded in its stored classification.
C23_RowsMatchClassification ==
    \A s \in db.series :
        s.is_series =>
            {<<r.image_path, r.order_in_series>> :
                r \in {x \in db.series_images : x.series_id = s.id}}
            = Pairs(Get(json_loads(s.gemini_parsed_response), "images", <<>>))

\* C24: in every state of a review session every series of the working set
\* that is not flagged as modified has a working copy (included, excluded,
\* confidence, reason) equal to its persisted classification, also after a
\* Delete shifted the positions of the remaining series.
C24_CleanMeansStored ==
    \A i \in 1..Len(series_data) :
        (i - 1) \notin modified_series =>
            /\ \E row \in db.series : row.id = series_data[i].id
            /\ WorkingCopy(series_data[i]) = StoredCopy(db, series_data[i].id)

\* C25: navigating from a modified series to another one without saving
\* discards its working copy: after the step the series the reviewer left
\* has the persisted included and excluded lists again and is not flagged.
C25_NavigationDiscards ==
    [][(/\ lastOp'.op = "key"
        /\ current_series_idx' # current_series_idx
        /\ current_series_idx \in modified_series) =>
            /\ series_data'[current_series_idx + 1].included_images
                  = StoredCopy(db', Cur.id).included_images
            /\ series_data'[current_series_idx + 1].excluded_images
                  = StoredCopy(db', Cur.id).excluded_images
            /\ current_series_idx \notin modified_series'
      ]_vars

\* the order values an included list gives to a filename
OrdersOf(included, filename) ==
    {included[j].order : j \in {i \in 1..Len(included) : included[i].path = filename}}

\* C26: a Reorder whose two images are both included exchanges exactly their
\* two order values: the included filenames, the multiset of order values,
\* every other entry's order and the excluded list are unchanged, and the
\* series is flagged as modified afterwards.
C26_ReorderSwaps ==
    [][(lastOp'.op = "move" /\ lastOp'.allowed) =>
        LET images == get_current_images
            old == Cur.included_images
            new == series_data'[current_series_idx + 1].included_images
        IN  \A from_idx, to_idx \in 0..(Len(images) - 1) :
              (/\ images[from_idx + 1][2] /\ images[to_idx + 1][2]
               /\ move_image(from_idx, to_idx)) =>
                 LET from_filename == basename(images[from_idx + 1][1])
                     to_filename == basename(images[to_idx + 1][1])
                 IN  /\ Len(new) = Len(old)
                     /\ {new[j].path : j \in 1..Len(new)}
                            = {old[j].path : j \in 1..Len(old)}
                     /\ OrdersOf(new, from_filename) = OrdersOf(old, to_filename)
                     /\ OrdersOf(new, to_filename) = OrdersOf(old, from_filename)
                     /\ \A j \in 1..Len(old) :
                           old[j].path \notin {from_filename, to_filename}
                              => new[j] = old[j]
                     /\ \A j \in 1..Len(old) :
                           Cardinality({i \in 1..Len(new) : new[i].order = old[j].order})
                             = Cardinality({i \in 1..Len(old) : old[i].order = old[j].order})
                     /\ series_data'[current_series_idx + 1].excluded_images
                            = Cur.excluded_images
                     /\ \A i \in 1..Len(series_data) :
                           i # current_series_idx + 1 => series_data'[i] = series_data[i]
                     /\ current_series_idx \in modified_series'
                     /\ UNCHANGED <<db, current_series_idx>>
      ]_vars

\* the only edit so far was a Reorder that exchanged two different orders
C26_Witness ==
    /\ lastOp = [op |-> "move", allowed |-> TRUE]
    /\ edits = 1
    /\ series_data # <<>>
    /\ Cur.included_images # pre_edit[Cur.id].included_images

\* C27: while the working set is non-empty the cursor of the active series
\* is a position of the working set; once a Delete has emptied the working
\* set the session has said that no series remain and has ended.
C27_CursorInBounds ==
    /\ series_data # <<>> =>
          /\ 0 <= current_series_idx
          /\ current_series_idx < Len(series_data)
    /\ series_data = <<>> =>
          /\ lastOp.op = "delete"
          /\ notice = "No More Series"
          /\ ~running

\* the series at the last position was deleted and the cursor stepped back
C27_Witness ==
    /\ lastOp.op = "delete"
    /\ notice = "Deleted"
    /\ Len(series_data) = 1
    /\ series_data[1].id = 1
    /\ current_series_idx = 0

\* a Delete has emptied the working set
C27_Emptied ==
    /\ series_data = <<>>
    /\ notice = "No More Series"

\* some series of the working set has a working copy that differs from its
\* persisted classification
Unsaved ==
    \E i \in 1..Len(series_data) :
        WorkingCopy(series_data[i]) # StoredCopy(db, series_data[i].id)

\* C28: a Delete that is not confirmed changes neither the store, the working
\* set, the modified flags nor the cursor; an exit request made while some
\* working copy has unsaved changes never ends the session without asking the
\* reviewer first; and a cancelled prompt leaves the session running with
\* every working copy as it was.
C28_ConfirmedOnly ==
    [][/\ (lastOp'.op = "delete" /\ notice' = "Delete Series") =>
              UNCHANGED <<db, series_data, modified_series, current_series_idx>>
       /\ (lastOp'.op = "quit" /\ Unsaved /\ ~running') => lastOp'.asked
       /\ (lastOp'.op = "quit" /\ lastOp'.answer = "cancel") =>
              /\ running'
              /\ UNCHANGED <<db, series_data, modified_series>>
      ]_vars

\* the same with the modified flags as the measure of unsaved changes
C28_FlaggedExitAsks ==
    [][/\ (lastOp'.op = "delete" /\ notice' = "Delete Series") =>
              UNCHANGED <<db, series_data, modified_series, current_series_idx>>
       /\ (lastOp'.op = "quit" /\ modified_series # {} /\ ~running') =>
              lastOp'.asked
       /\ (lastOp'.op = "quit" /\ lastOp'.answer = "cancel") =>
              /\ running'
              /\ UNCHANGED <<db, series_data, modified_series>>
      ]_vars

-----------------------------------------------------------------------------
(* Properties of repeated runs (SpecRuns) *)

\* C29: after any number of analyze runs over the same directory the store
\* holds at most one series row per cluster key (base_name).
C29_OneRowPerBaseName ==
    \A r1, r2 \in db.series : r1.base_name = r2.base_name => r1.id = r2.id

\* a run whose read of the store succeeded found every cluster processed
C29_AllSkipped ==
    /\ lastOp.op = "filter"
    /\ ~lastOp.read_fails
    /\ lastOp.skipped_count = 2
    /\ sorted_series = <<>>

====
